---- MODULE Spec2Model ----
(***************************************************************************)
(* Model of emacrossover.py: one invocation of main(), the EMA crossover   *)
(* alert pipeline for BTCUSDT (5m crossover, 15m/30m alignment, Telegram).  *)
(*                                                                         *)
(* Numbers.  Closing prices are positive integers (price units).  An EMA   *)
(* value is an exact fraction [num, den]; the recurrence of                *)
(* ewm(span, adjust=False).mean() is computed exactly, so floating-point   *)
(* rounding is not modelled.  Fractions are compared without multiplying   *)
(* them out (FracLess), so the numbers stay within TLC's integers.         *)
(*                                                                         *)
(* Time.  A candle's close_time is modelled by its position in the frame.  *)
(***************************************************************************)
EXTENDS Integers, Sequences, FiniteSets, TLC

VARIABLES
    pc,        \* position of main()
    outcome,   \* how the run ended: RUNNING until main returns or raises
    data_5m,   \* <<>> or <<snapshot>>: main's data_5m
    crossover, \* "UNSET", or check_ema_crossover's result with None as "NONE"
    htf_15m,   \* <<>> or <<snapshot>>: check_htf_alignment's htf_15m
    htf_30m,   \* <<>> or <<snapshot>>: check_htf_alignment's htf_30m
    htf_data,  \* <<>> or <<dict>>: main's htf_data
    fetches,   \* log of the requests.get calls of fetch_klines, in order
    sent,      \* log of the requests.post calls of send_telegram_alert, in order
    earlier,   \* <<>> or <<record>>: the finished run before this one (SpecRuns)
    series,    \* the closing prices handed to calculate_ema (SpecEma)
    span,      \* the period handed to calculate_ema (SpecEma)
    ema        \* <<>> or <<series>>: what calculate_ema returned (SpecEma)

\* what no step of main() touches
aside == <<earlier, series, span, ema>>

vars == <<pc, outcome, data_5m, crossover, htf_15m, htf_30m, htf_data, fetches, sent,
          aside>>

----------------------------------------------------------------------------
(* Program constants *)

EMA_FAST == 30

EMA_SLOW == 60

\* get_ema_values asks for EMA_SLOW + 10 candles
KlineLimit == EMA_SLOW + 10

(* Bounds of the model *)

\* the provider answers with 0..MaxRows rows (it may hold less history than asked)
MaxRows == 3

\* closing prices are 1..MaxPrice
MaxPrice == 2

\* EMA values drawn directly (SpecFn) are 0..MaxVal
MaxVal == 2

\* calculate_ema on its own (SpecEma) is given the periods 1..MaxSpan, 30 and 60
MaxSpan == 3

Prices == 1..MaxPrice

CloseSeqs == UNION {[1..n -> Prices] : n \in 0..MaxRows}

\* What the provider can answer to one GET /api/v3/klines:
\*   request_error  requests.get or raise_for_status raises a RequestException
\*   bad_shape      the body is JSON of another shape: DataFrame/astype raise ValueError
\*   ok             a list of rows, of which the model keeps the close column
\* (a body that is not JSON at all makes response.json() raise: a RequestException
\* or a plain ValueError depending on the requests version, so it behaves as one
\* of the first two)
Responses ==
    {[status |-> "request_error", closes |-> <<>>],
     [status |-> "bad_shape", closes |-> <<>>]}
    \cup {[status |-> "ok", closes |-> c] : c \in CloseSeqs}

----------------------------------------------------------------------------
(* Exact fractions *)

Frac(n, d) == [num |-> n, den |-> d]

\* a/b < c/d for a, c >= 0 and b, d > 0, by comparing integer parts and then
\* the reciprocals of the fractional parts (no product of a numerator and a
\* denominator is formed)
RECURSIVE FracLess(_, _, _, _)
FracLess(a, b, c, d) ==
    LET qa == a \div b
        qc == c \div d
        ra == a % b
        rc == c % d
    IN  IF qa # qc THEN qa < qc
        ELSE IF rc = 0 THEN FALSE
        ELSE IF ra = 0 THEN TRUE
        ELSE FracLess(d, rc, b, ra)

\* Python's float comparisons <, >, <=, >= on two EMA values
Lt(x, y) == FracLess(x.num, x.den, y.num, y.den)

Gt(x, y) == Lt(y, x)

Le(x, y) == ~Lt(y, x)

Ge(x, y) == ~Lt(x, y)

----------------------------------------------------------------------------
(* fetch_klines, calculate_ema, get_ema_values *)

\* fetch_klines: a RequestException, a ValueError, or the frame of the rows the
\* provider sent (however many they are: the row count is not compared to limit)
fetch_klines(interval, limit, resp) ==
    IF resp.status = "request_error" THEN [exc |-> "RequestException", df |-> <<>>]
    ELSE IF resp.status = "bad_shape" THEN [exc |-> "ValueError", df |-> <<>>]
    ELSE [exc |-> "none", df |-> resp.closes]

\* the recurrence with weights that do not add up to one: a = 2/(period+1)
\* on the price and period/(period+1) on the previous value
RECURSIVE calculate_ema_unnormalised(_, _)
calculate_ema_unnormalised(df, period) ==
    IF Len(df) = 0 THEN <<>>
    ELSE IF Len(df) = 1 THEN <<Frac(df[1], 1)>>
    ELSE LET prev == calculate_ema_unnormalised(SubSeq(df, 1, Len(df) - 1), period)
             last == prev[Len(prev)]
         IN  Append(prev, Frac(2 * df[Len(df)] * last.den + period * last.num,
                               (period + 1) * last.den))

\* the recurrence started from zero instead of from the first close:
\* ema[1] = a*close[1]
RECURSIVE calculate_ema_zero_seed(_, _)
calculate_ema_zero_seed(df, period) ==
    IF Len(df) = 0 THEN <<>>
    ELSE IF Len(df) = 1 THEN <<Frac(2 * df[1], period + 1)>>
    ELSE LET prev == calculate_ema_zero_seed(SubSeq(df, 1, Len(df) - 1), period)
             last == prev[Len(prev)]
         IN  Append(prev, Frac(2 * df[Len(df)] * last.den + (period - 1) * last.num,
                               (period + 1) * last.den))

\* df[column].ewm(span=period, adjust=False).mean():
\*   ema[1] = close[1], ema[i] = a*close[i] + (1-a)*ema[i-1], a = 2/(period+1)
\* as fractions: num_i = 2*close[i]*den_(i-1) + (period-1)*num_(i-1),
\*               den_i = (period+1)*den_(i-1)
RECURSIVE calculate_ema(_, _)
calculate_ema(df, period) ==
    IF Len(df) = 0 THEN <<>>
    ELSE IF Len(df) = 1 THEN <<Frac(df[1], 1)>>
    ELSE LET prev == calculate_ema(SubSeq(df, 1, Len(df) - 1), period)
             last == prev[Len(prev)]
         IN  Append(prev, Frac(2 * df[Len(df)] * last.den + (period - 1) * last.num,
                               (period + 1) * last.den))

\* the snapshot read one row later: iloc[-1] and iloc[-2], the still-forming
\* candle taken as the current one
Snapshot_forming_candle(df) ==
    LET ema_fast == calculate_ema(df, EMA_FAST)
        ema_slow == calculate_ema(df, EMA_SLOW)
        n == Len(df)
    IN  [ema_fast      |-> ema_fast[n],
         ema_slow      |-> ema_slow[n],
         ema_fast_prev |-> ema_fast[n - 1],
         ema_slow_prev |-> ema_slow[n - 1],
         close_time    |-> n,
         close_price   |-> df[n]]

\* The dict get_ema_values builds from a frame of at least 3 rows:
\* iloc[-2] is index Len-1, iloc[-3] is index Len-2 (1-based)
Snapshot(df) ==
    LET ema_fast == calculate_ema(df, EMA_FAST)
        ema_slow == calculate_ema(df, EMA_SLOW)
        n == Len(df)
    IN  [ema_fast      |-> ema_fast[n - 1],
         ema_slow      |-> ema_slow[n - 1],
         ema_fast_prev |-> ema_fast[n - 2],
         ema_slow_prev |-> ema_slow[n - 2],
         close_time    |-> n - 1,
         close_price   |-> df[n - 1]]

\* get_ema_values: the fetch's exception, or IndexError when iloc[-2] or iloc[-3]
\* is out of bounds, or the snapshot
get_ema_values(interval, resp) ==
    LET r == fetch_klines(interval, KlineLimit, resp)
    IN  IF r.exc # "none" THEN [exc |-> r.exc, value |-> <<>>]
        ELSE IF Len(r.df) < 3 THEN [exc |-> "IndexError", value |-> <<>>]
        ELSE [exc |-> "none", value |-> <<Snapshot(r.df)>>]

\* the closes of a frame without its last row, the still-forming candle
Closed(closes) ==
    IF Len(closes) = 0 THEN <<>> ELSE SubSeq(closes, 1, Len(closes) - 1)

\* the log entry of one requests.get: what was asked, and what came back (the
\* number of rows and the closes of the closed candles)
FetchEntry(interval, resp) ==
    [interval |-> interval, limit |-> KlineLimit, status |-> resp.status,
     rows |-> Len(resp.closes), closed |-> Closed(resp.closes)]

\* the position of each timeframe's fetch in a run
FetchIndex(interval) ==
    IF interval = "5m" THEN 1 ELSE IF interval = "15m" THEN 2 ELSE 3

\* What the provider answers to this run's request for one timeframe.  A first
\* run can get any answer.  A re-invocation on the same candle data gets what the
\* earlier run got for that timeframe, except that the still-forming last candle
\* may have moved: the same status, the same number of rows, the same closed
\* candles
Provider(interval) ==
    IF earlier = <<>> \/ FetchIndex(interval) > Len(earlier[1].fetches)
    THEN Responses
    ELSE {resp \in Responses :
            FetchEntry(interval, resp) = earlier[1].fetches[FetchIndex(interval)]}

----------------------------------------------------------------------------
(* check_ema_crossover and the comparisons of check_htf_alignment *)

\* check_ema_crossover with the prior samples compared strictly (< and >)
check_ema_crossover_strict_prev(current) ==
    LET fast_now  == current.ema_fast
        slow_now  == current.ema_slow
        fast_prev == current.ema_fast_prev
        slow_prev == current.ema_slow_prev
    IN  IF Lt(fast_prev, slow_prev) /\ Gt(fast_now, slow_now) THEN "LONG"
        ELSE IF Gt(fast_prev, slow_prev) /\ Lt(fast_now, slow_now) THEN "SHORT"
        ELSE "NONE"

\* check_ema_crossover with the current samples compared loosely (>= and <=)
check_ema_crossover_loose_now(current) ==
    LET fast_now  == current.ema_fast
        slow_now  == current.ema_slow
        fast_prev == current.ema_fast_prev
        slow_prev == current.ema_slow_prev
    IN  IF Le(fast_prev, slow_prev) /\ Ge(fast_now, slow_now) THEN "LONG"
        ELSE IF Ge(fast_prev, slow_prev) /\ Le(fast_now, slow_now) THEN "SHORT"
        ELSE "NONE"

check_ema_crossover(current) ==
    LET fast_now  == current.ema_fast
        slow_now  == current.ema_slow
        fast_prev == current.ema_fast_prev
        slow_prev == current.ema_slow_prev
    IN  IF Le(fast_prev, slow_prev) /\ Gt(fast_now, slow_now) THEN "LONG"
        ELSE IF Ge(fast_prev, slow_prev) /\ Lt(fast_now, slow_now) THEN "SHORT"
        ELSE "NONE"

\* the alignment comparison with >= and <= in place of > and <
Aligned_loose(direction, htf) ==
    IF direction = "LONG" THEN Ge(htf.ema_fast, htf.ema_slow)
    ELSE Le(htf.ema_fast, htf.ema_slow)

\* aligned_15m / aligned_30m of check_htf_alignment for one timeframe
Aligned(direction, htf) ==
    IF direction = "LONG" THEN Gt(htf.ema_fast, htf.ema_slow)
    ELSE Lt(htf.ema_fast, htf.ema_slow)

\* the dict check_htf_alignment returns once both snapshots are there
AlignmentDict(direction, h15, h30) ==
    [aligned_15m  |-> Aligned(direction, h15),
     aligned_30m  |-> Aligned(direction, h30),
     ema_fast_15m |-> h15.ema_fast,
     ema_slow_15m |-> h15.ema_slow,
     ema_fast_30m |-> h30.ema_fast,
     ema_slow_30m |-> h30.ema_slow]

----------------------------------------------------------------------------
(* send_telegram_alert and the messages of main *)

Msg(kind, direction, detail) == [kind |-> kind, direction |-> direction, detail |-> detail]

NoCrossoverMsg == Msg("NO_CROSSOVER", "NONE", <<>>)

DetectedMsg(direction) == Msg("DETECTED", direction, <<>>)

Reject15mMsg(direction) == Msg("REJECT_15M", direction, <<>>)

Reject30mMsg(direction) == Msg("REJECT_30M", direction, <<>>)

format_alert_message(direction, d5, htf) == Msg("CONFIRMED", direction, <<d5, htf>>)

\* send_telegram_alert without its try/except: a failed post raises
send_telegram_alert_raising(message, posted) ==
    [exc |-> IF posted THEN "none" ELSE "RequestException", result |-> posted]

\* send_telegram_alert: the post succeeds (posted) or raises a RequestException,
\* which is caught: it returns True or False and never raises
send_telegram_alert(message, posted) ==
    [exc |-> "none", result |-> posted]

\* a send that is skipped when the earlier run already handed over the same
\* message (alert deduplication across runs)
Send_dedup(message, nextPc, nextOutcome) ==
    IF earlier # <<>> /\ \E i \in DOMAIN earlier[1].messages : earlier[1].messages[i] = message
    THEN sent' = sent /\ pc' = nextPc /\ outcome' = nextOutcome
    ELSE \E posted \in BOOLEAN :
            /\ sent' = Append(sent, [message |-> message, ok |-> posted])
            /\ pc' = nextPc /\ outcome' = nextOutcome

\* One call of send_telegram_alert from main's try block, whose result main
\* ignores: on return main goes on to nextPc (ending with nextOutcome); a
\* RequestException out of it would reach main's except clause (API error)
Send(message, nextPc, nextOutcome) ==
    \E posted \in BOOLEAN :
        LET r == send_telegram_alert(message, posted)
        IN  /\ sent' = Append(sent, [message |-> message, ok |-> posted])
            /\ IF r.exc = "none"
               THEN pc' = nextPc /\ outcome' = nextOutcome
               ELSE pc' = "done" /\ outcome' = "ERROR"

\* main without its except RequestException clause: every exception is re-raised
Raised_reraise(exc) ==
    /\ pc' = "done"
    /\ outcome' = "UNHANDLED"

\* main with "except Exception" printing without the raise: every exception is
\* swallowed like a request error
Raised_swallow(exc) ==
    /\ pc' = "done"
    /\ outcome' = "ERROR"

\* a failed call is made again: main stays where it is
Raised_retry(exc) ==
    /\ pc' = pc
    /\ outcome' = outcome

\* How an exception out of get_ema_values ends main: a RequestException is
\* printed and swallowed (line 210), anything else is printed and re-raised
Raised(exc) ==
    /\ pc' = "done"
    /\ outcome' = IF exc = "RequestException" THEN "ERROR" ELSE "UNHANDLED"

----------------------------------------------------------------------------
(* main *)

\* a single run of main(): no earlier run, and calculate_ema is not called on its own
NoAside ==
    /\ earlier = <<>>
    /\ series = <<>>
    /\ span = 0
    /\ ema = <<>>

Init ==
    /\ pc = "start"
    /\ outcome = "RUNNING"
    /\ data_5m = <<>>
    /\ crossover = "UNSET"
    /\ htf_15m = <<>>
    /\ htf_30m = <<>>
    /\ htf_data = <<>>
    /\ fetches = <<>>
    /\ sent = <<>>
    /\ NoAside

\* line 179: data_5m = get_ema_values(SYMBOL, "5m")
GetEma5m ==
    /\ pc = "start"
    /\ \E resp \in Provider("5m") :
        LET r == get_ema_values("5m", resp)
        IN  /\ fetches' = Append(fetches, FetchEntry("5m", resp))
            /\ IF r.exc = "none"
               THEN data_5m' = r.value /\ pc' = "detect" /\ UNCHANGED outcome
               ELSE Raised(r.exc) /\ UNCHANGED data_5m
    /\ UNCHANGED <<crossover, htf_15m, htf_30m, htf_data, sent, aside>>

\* lines 184-187 left out: main goes on to the HTF check whatever the result
Detect_no_return ==
    /\ pc = "detect"
    /\ crossover' = check_ema_crossover(data_5m[1])
    /\ pc' = "send_detected"
    /\ UNCHANGED <<outcome, data_5m, htf_15m, htf_30m, htf_data, fetches, sent, aside>>

\* lines 182-184: crossover = check_ema_crossover(data_5m); if crossover is None
Detect ==
    /\ pc = "detect"
    /\ crossover' = check_ema_crossover(data_5m[1])
    /\ pc' = IF crossover' = "NONE" THEN "send_none" ELSE "send_detected"
    /\ UNCHANGED <<outcome, data_5m, htf_15m, htf_30m, htf_data, fetches, sent, aside>>

\* the NONE branch returning without the report
SendNoCrossover_silent ==
    /\ pc = "send_none"
    /\ pc' = "done"
    /\ outcome' = "NO_SIGNAL"
    /\ UNCHANGED <<data_5m, crossover, htf_15m, htf_30m, htf_data, fetches, sent, aside>>

\* lines 185-187
SendNoCrossover ==
    /\ pc = "send_none"
    /\ Send(NoCrossoverMsg, "done", "NO_SIGNAL")
    /\ UNCHANGED <<data_5m, crossover, htf_15m, htf_30m, htf_data, fetches, aside>>

\* lines 189-190
SendDetected ==
    /\ pc = "send_detected"
    /\ Send(DetectedMsg(crossover), "htf_15m", "RUNNING")
    /\ UNCHANGED <<data_5m, crossover, htf_15m, htf_30m, htf_data, fetches, aside>>

\* line 193 -> line 106: htf_15m = get_ema_values(symbol, "15m")
GetEma15m ==
    /\ pc = "htf_15m"
    /\ \E resp \in Provider("15m") :
        LET r == get_ema_values("15m", resp)
        IN  /\ fetches' = Append(fetches, FetchEntry("15m", resp))
            /\ IF r.exc = "none"
               THEN htf_15m' = r.value /\ pc' = "htf_30m" /\ UNCHANGED outcome
               ELSE Raised(r.exc) /\ UNCHANGED htf_15m
    /\ UNCHANGED <<data_5m, crossover, htf_30m, htf_data, sent, aside>>

\* line 107 with a fallback: when the 30m call fails the 15m snapshot stands in
GetEma30m_fallback ==
    /\ pc = "htf_30m"
    /\ \E resp \in Provider("30m") :
        LET r == get_ema_values("30m", resp)
        IN  /\ fetches' = Append(fetches, FetchEntry("30m", resp))
            /\ htf_30m' = IF r.exc = "none" THEN r.value ELSE htf_15m
            /\ pc' = "align"
    /\ UNCHANGED <<outcome, data_5m, crossover, htf_15m, htf_data, sent, aside>>

\* line 107: htf_30m = get_ema_values(symbol, "30m")
GetEma30m ==
    /\ pc = "htf_30m"
    /\ \E resp \in Provider("30m") :
        LET r == get_ema_values("30m", resp)
        IN  /\ fetches' = Append(fetches, FetchEntry("30m", resp))
            /\ IF r.exc = "none"
               THEN htf_30m' = r.value /\ pc' = "align" /\ UNCHANGED outcome
               ELSE Raised(r.exc) /\ UNCHANGED htf_30m
    /\ UNCHANGED <<data_5m, crossover, htf_15m, htf_data, sent, aside>>

\* lines 109-123: both flags are computed and the dict is returned to main
Align ==
    /\ pc = "align"
    /\ htf_data' = <<AlignmentDict(crossover, htf_15m[1], htf_30m[1])>>
    /\ pc' = "check_15m"
    /\ UNCHANGED <<outcome, data_5m, crossover, htf_15m, htf_30m, fetches, sent, aside>>

\* line 195 with the test inverted (the "not" dropped)
Check15m_inverted ==
    /\ pc = "check_15m"
    /\ pc' = IF htf_data[1].aligned_15m THEN "send_reject_15m" ELSE "check_30m"
    /\ UNCHANGED <<outcome, data_5m, crossover, htf_15m, htf_30m, htf_data, fetches, sent, aside>>

\* the two tests in the other order: 30m is tested (and named) first
Check15m_30m_first ==
    /\ pc = "check_15m"
    /\ pc' = IF ~htf_data[1].aligned_30m THEN "send_reject_30m"
             ELSE IF ~htf_data[1].aligned_15m THEN "send_reject_15m"
             ELSE "check_30m"
    /\ UNCHANGED <<outcome, data_5m, crossover, htf_15m, htf_30m, htf_data, fetches, sent, aside>>

\* line 195: if not htf_data["15m_aligned"]
Check15m ==
    /\ pc = "check_15m"
    /\ pc' = IF ~htf_data[1].aligned_15m THEN "send_reject_15m" ELSE "check_30m"
    /\ UNCHANGED <<outcome, data_5m, crossover, htf_15m, htf_30m, htf_data, fetches, sent, aside>>

\* lines 196-198
SendReject15m ==
    /\ pc = "send_reject_15m"
    /\ Send(Reject15mMsg(crossover), "done", "REJECTED")
    /\ UNCHANGED <<data_5m, crossover, htf_15m, htf_30m, htf_data, fetches, aside>>

\* line 200 left out: the alert is sent once 15m is aligned
Check30m_skipped ==
    /\ pc = "check_30m"
    /\ pc' = "send_confirmed"
    /\ UNCHANGED <<outcome, data_5m, crossover, htf_15m, htf_30m, htf_data, fetches, sent, aside>>

\* line 200: if not htf_data["30m_aligned"]
Check30m ==
    /\ pc = "check_30m"
    /\ pc' = IF ~htf_data[1].aligned_30m THEN "send_reject_30m" ELSE "send_confirmed"
    /\ UNCHANGED <<outcome, data_5m, crossover, htf_15m, htf_30m, htf_data, fetches, sent, aside>>

\* lines 201-203
SendReject30m ==
    /\ pc = "send_reject_30m"
    /\ Send(Reject30mMsg(crossover), "done", "REJECTED")
    /\ UNCHANGED <<data_5m, crossover, htf_15m, htf_30m, htf_data, fetches, aside>>

\* lines 206-208
SendConfirmed ==
    /\ pc = "send_confirmed"
    /\ Send(format_alert_message(crossover, data_5m[1], htf_data[1]), "done", "CONFIRMED")
    /\ UNCHANGED <<data_5m, crossover, htf_15m, htf_30m, htf_data, fetches, aside>>

Next ==
    \/ GetEma5m
    \/ Detect
    \/ SendNoCrossover
    \/ SendDetected
    \/ GetEma15m
    \/ GetEma30m
    \/ Align
    \/ Check15m
    \/ SendReject15m
    \/ Check30m
    \/ SendReject30m
    \/ SendConfirmed

Spec == Init /\ [][Next]_vars

\* A run in which every call returns or fails: main is a single thread, so the
\* step it is at is eventually taken
SpecLive == Spec /\ WF_vars(Next)

----------------------------------------------------------------------------
(* The same pipeline with the EMA values of the snapshots drawn directly.    *)
(* SpecFn starts where get_ema_values has returned: the provider answered in *)
(* full, and the four EMA values of a snapshot are any of 0..MaxVal, so that *)
(* check_ema_crossover and the alignment comparisons see every ordering.     *)

Val(v) == Frac(v, 1)

FreeSnapshot(fp, sp, fn, sn) ==
    [ema_fast      |-> Val(fn),
     ema_slow      |-> Val(sn),
     ema_fast_prev |-> Val(fp),
     ema_slow_prev |-> Val(sp),
     close_time    |-> KlineLimit - 1,
     close_price   |-> 1]

FreeSnapshots ==
    {FreeSnapshot(fp, sp, fn, sn) : fp \in 0..MaxVal, sp \in 0..MaxVal,
                                    fn \in 0..MaxVal, sn \in 0..MaxVal}

\* (the closes behind the drawn values are not modelled)
FullEntry(interval) ==
    [interval |-> interval, limit |-> KlineLimit, status |-> "ok", rows |-> KlineLimit,
     closed |-> <<>>]

\* main at line 182: get_ema_values(SYMBOL, "5m") has returned any snapshot
InitFnDetect ==
    /\ pc = "detect"
    /\ outcome = "RUNNING"
    /\ data_5m \in {<<s>> : s \in FreeSnapshots}
    /\ crossover = "UNSET"
    /\ htf_15m = <<>>
    /\ htf_30m = <<>>
    /\ htf_data = <<>>
    /\ fetches = <<FullEntry("5m")>>
    /\ sent = <<>>
    /\ NoAside

\* check_htf_alignment at line 109, after a LONG or a SHORT crossover was
\* announced: both get_ema_values calls have returned any snapshots
InitFnAlign ==
    /\ pc = "align"
    /\ outcome = "RUNNING"
    /\ crossover \in {"LONG", "SHORT"}
    /\ data_5m = IF crossover = "LONG" THEN <<FreeSnapshot(0, 0, 1, 0)>>
                 ELSE <<FreeSnapshot(0, 0, 0, 1)>>
    /\ htf_15m \in {<<s>> : s \in FreeSnapshots}
    /\ htf_30m \in {<<s>> : s \in FreeSnapshots}
    /\ htf_data = <<>>
    /\ fetches = <<FullEntry("5m"), FullEntry("15m"), FullEntry("30m")>>
    /\ \E posted \in BOOLEAN :
        sent = <<[message |-> DetectedMsg(crossover), ok |-> posted]>>
    /\ NoAside

InitFn == InitFnDetect \/ InitFnAlign

NextFn ==
    \/ Detect
    \/ SendNoCrossover
    \/ SendDetected
    \/ Align
    \/ Check15m
    \/ SendReject15m
    \/ Check30m
    \/ SendReject30m
    \/ SendConfirmed

SpecFn == InitFn /\ [][NextFn]_vars

----------------------------------------------------------------------------
(* calculate_ema and get_ema_values on their own.  SpecEma hands calculate_ema *)
(* any series of closes and any period of Spans, and then builds the snapshot *)
(* of that series as get_ema_values does from a fetched frame.                *)

Spans == (1..MaxSpan) \cup {EMA_FAST, EMA_SLOW}

InitEma ==
    /\ pc = "ema"
    /\ outcome = "RUNNING"
    /\ data_5m = <<>>
    /\ crossover = "UNSET"
    /\ htf_15m = <<>>
    /\ htf_30m = <<>>
    /\ htf_data = <<>>
    /\ fetches = <<>>
    /\ sent = <<>>
    /\ earlier = <<>>
    /\ series \in CloseSeqs
    /\ span \in Spans
    /\ ema = <<>>

\* lines 56-58: calculate_ema(df, period)
CalcEma ==
    /\ pc = "ema"
    /\ ema' = <<calculate_ema(series, span)>>
    /\ pc' = "ema_done"
    /\ UNCHANGED <<outcome, data_5m, crossover, htf_15m, htf_30m, htf_data, fetches, sent,
                   earlier, series, span>>

\* lines 63-76: get_ema_values on the frame whose closes are series; data_5m is
\* the snapshot, or stays empty when the frame is too short (IndexError)
TakeSnapshot ==
    /\ pc = "ema_done"
    /\ LET resp == [status |-> "ok", closes |-> series]
       IN  /\ data_5m' = get_ema_values("5m", resp).value
           /\ fetches' = <<FetchEntry("5m", resp)>>
    /\ pc' = "snapshot_done"
    /\ UNCHANGED <<outcome, crossover, htf_15m, htf_30m, htf_data, sent, aside>>

NextEma ==
    \/ CalcEma
    \/ TakeSnapshot

SpecEma == InitEma /\ [][NextEma]_vars

----------------------------------------------------------------------------
(* Re-invocation: the script is started again (lines 217-218) after a run has *)
(* ended, on the candle data of that run.  SpecRuns is a run followed by one  *)
(* re-invocation; earlier keeps what the first run was given and what it did. *)

RunRecord ==
    [fetches  |-> fetches,
     data_5m  |-> data_5m,
     htf_15m  |-> htf_15m,
     htf_30m  |-> htf_30m,
     crossover |-> crossover,
     htf_data |-> htf_data,
     outcome  |-> outcome,
     messages |-> [i \in DOMAIN sent |-> sent[i].message]]

\* a new process runs main(): its locals are fresh, and the module-level names
\* (lines 20-27) are only ever read
Reinvoke ==
    /\ pc = "done"
    /\ earlier = <<>>
    /\ earlier' = <<RunRecord>>
    /\ pc' = "start"
    /\ outcome' = "RUNNING"
    /\ data_5m' = <<>>
    /\ crossover' = "UNSET"
    /\ htf_15m' = <<>>
    /\ htf_30m' = <<>>
    /\ htf_data' = <<>>
    /\ fetches' = <<>>
    /\ sent' = <<>>
    /\ UNCHANGED <<series, span, ema>>

NextRuns ==
    \/ Next
    \/ Reinvoke

SpecRuns == Init /\ [][NextRuns]_vars

----------------------------------------------------------------------------
(* Properties *)

Directions == {"LONG", "SHORT"}

\* the kinds of the messages handed to send_telegram_alert so far, in order
Kinds == [i \in DOMAIN sent |-> sent[i].message.kind]

HasKind(k) == \E i \in DOMAIN sent : sent[i].message.kind = k

Fetched(interval) == \E i \in DOMAIN fetches : fetches[i].interval = interval

RejectKinds == {"REJECT_15M", "REJECT_30M"}

\* C1: the confirmed alert is sent only after a LONG or SHORT crossover on the
\* base timeframe with both the 15m and the 30m flag true for that direction;
\* a finished run with a crossover in which one of the two flags is false has
\* ended REJECTED with a 'not aligned' message and has sent no confirmed alert.
C1_ConfirmedOnlyWhenAligned ==
    /\ HasKind("CONFIRMED") =>
        /\ data_5m # <<>> /\ htf_15m # <<>> /\ htf_30m # <<>> /\ htf_data # <<>>
        /\ crossover \in Directions
        /\ crossover = check_ema_crossover(data_5m[1])
        /\ htf_data[1].aligned_15m /\ Aligned(crossover, htf_15m[1])
        /\ htf_data[1].aligned_30m /\ Aligned(crossover, htf_30m[1])
        /\ \A i \in DOMAIN sent :
            sent[i].message.kind = "CONFIRMED" => sent[i].message.direction = crossover
    /\ ( /\ pc = "done"
         /\ crossover \in Directions
         /\ htf_data # <<>>
         /\ ~(htf_data[1].aligned_15m /\ htf_data[1].aligned_30m) ) =>
        /\ outcome = "REJECTED"
        /\ ~HasKind("CONFIRMED")
        /\ Kinds[Len(sent)] \in RejectKinds

C1_Witness ==
    /\ pc = "done"
    /\ outcome = "CONFIRMED"
    /\ HasKind("CONFIRMED")
    /\ htf_data[1].aligned_15m /\ htf_data[1].aligned_30m

\* C2 as claimed: once the 15m snapshot is not aligned with the crossover
\* direction, the 30m candles are never fetched and no 30m snapshot exists.
C2_Original ==
    ( /\ htf_15m # <<>>
      /\ crossover \in Directions
      /\ ~Aligned(crossover, htf_15m[1]) ) =>
        /\ ~Fetched("30m")
        /\ htf_30m = <<>>

\* C2 amended: when the 15m flag is false, the 30m flag is never tested and does
\* not affect the outcome: main goes from the 15m test to the 15m rejection and
\* ends REJECTED having sent the 15m reason; the 30m candles have nevertheless
\* been fetched and the 30m flag computed, because check_htf_alignment fetches
\* both timeframes before either flag exists.
C2_Amended ==
    (htf_data # <<>> /\ ~htf_data[1].aligned_15m) =>
        /\ Fetched("30m")
        /\ htf_30m # <<>>
        /\ htf_data[1].aligned_30m = Aligned(crossover, htf_30m[1])
        /\ pc \in {"check_15m", "send_reject_15m", "done"}
        /\ pc = "done" =>
            /\ outcome = "REJECTED"
            /\ Kinds = <<"DETECTED", "REJECT_15M">>

C2_Witness ==
    /\ pc = "done"
    /\ outcome = "REJECTED"
    /\ htf_data # <<>>
    /\ ~htf_data[1].aligned_15m
    /\ htf_data[1].aligned_30m
    /\ Fetched("30m")

\* C3 as claimed: a run that has ended in ERROR, NO_SIGNAL, REJECTED or CONFIRMED
\* has called send_telegram_alert exactly once.
C3_Original ==
    (pc = "done" /\ outcome \in {"ERROR", "NO_SIGNAL", "REJECTED", "CONFIRMED"}) =>
        Len(sent) = 1

\* C3 amended: a run that ends NO_SIGNAL has sent exactly one message, the
\* no-crossover report; a run that ends REJECTED or CONFIRMED has sent exactly
\* two, the 'crossover detected' message and then exactly one outcome message;
\* a run that ends in ERROR has sent no outcome message (nothing when the 5m
\* fetch failed, only 'crossover detected' when a 15m or 30m fetch failed).
C3_Amended ==
    pc = "done" =>
        /\ outcome = "NO_SIGNAL" => Kinds = <<"NO_CROSSOVER">>
        /\ outcome = "REJECTED" =>
            /\ Len(sent) = 2
            /\ Kinds[1] = "DETECTED"
            /\ Kinds[2] \in RejectKinds
        /\ outcome = "CONFIRMED" => Kinds = <<"DETECTED", "CONFIRMED">>
        /\ outcome = "ERROR" =>
            Kinds = IF Len(fetches) = 1 THEN <<>> ELSE <<"DETECTED">>

C3_Witness ==
    /\ pc = "done"
    /\ outcome = "REJECTED"
    /\ Len(sent) = 2

\* the four EMA values of a snapshot drawn directly (denominator 1), as integers
IsPlain(snap) ==
    /\ snap.ema_fast.den = 1 /\ snap.ema_slow.den = 1
    /\ snap.ema_fast_prev.den = 1 /\ snap.ema_slow_prev.den = 1

FastNow(snap) == snap.ema_fast.num

SlowNow(snap) == snap.ema_slow.num

FastPrev(snap) == snap.ema_fast_prev.num

SlowPrev(snap) == snap.ema_slow_prev.num

\* C4: for every snapshot, check_ema_crossover returns LONG exactly when
\* fast_prev <= slow_prev and fast_now > slow_now, SHORT exactly when
\* fast_prev >= slow_prev and fast_now < slow_now, and None otherwise.
C4_CrossoverRule ==
    (data_5m # <<>> /\ crossover # "UNSET") =>
        LET s == data_5m[1]
            long  == FastPrev(s) <= SlowPrev(s) /\ FastNow(s) > SlowNow(s)
            short == FastPrev(s) >= SlowPrev(s) /\ FastNow(s) < SlowNow(s)
        IN  /\ IsPlain(s)
            /\ crossover = "LONG" <=> long
            /\ crossover = "SHORT" <=> short
            /\ crossover = "NONE" <=> (~long /\ ~short)

\* a crossover from equality on the prior sample, detected by Detect
C4_Witness ==
    /\ pc = "send_detected"
    /\ crossover = "LONG"
    /\ FastPrev(data_5m[1]) = SlowPrev(data_5m[1])
    /\ FastNow(data_5m[1]) > SlowNow(data_5m[1])

\* C5: when fast_now equals slow_now the result is neither LONG nor SHORT,
\* whatever fast_prev and slow_prev are, and the run goes to the no-crossover
\* report and ends NO_SIGNAL.
C5_EqualNowNoSignal ==
    ( /\ data_5m # <<>>
      /\ crossover # "UNSET"
      /\ IsPlain(data_5m[1])
      /\ FastNow(data_5m[1]) = SlowNow(data_5m[1]) ) =>
        /\ crossover = "NONE"
        /\ pc \in {"send_none", "done"}
        /\ htf_15m = <<>> /\ htf_30m = <<>> /\ htf_data = <<>>
        /\ pc = "done" =>
            /\ outcome = "NO_SIGNAL"
            /\ Kinds = <<"NO_CROSSOVER">>

C5_Witness ==
    /\ pc = "done"
    /\ outcome = "NO_SIGNAL"
    /\ FastNow(data_5m[1]) = SlowNow(data_5m[1])
    /\ FastPrev(data_5m[1]) < SlowPrev(data_5m[1])

\* the alignment rule on the current values of one higher timeframe
AlignedByRule(direction, snap) ==
    IF direction = "LONG" THEN FastNow(snap) > SlowNow(snap)
    ELSE FastNow(snap) < SlowNow(snap)

\* C6: each higher timeframe's flag is true for LONG iff fast_now > slow_now and
\* for SHORT iff fast_now < slow_now; equal values are aligned for neither
\* direction, and the flag is a function of the current values alone (the prior
\* values of the timeframe do not enter it).
C6_AlignmentRule ==
    htf_data # <<>> =>
        /\ crossover \in Directions
        /\ IsPlain(htf_15m[1]) /\ IsPlain(htf_30m[1])
        /\ htf_data[1].aligned_15m = AlignedByRule(crossover, htf_15m[1])
        /\ htf_data[1].aligned_30m = AlignedByRule(crossover, htf_30m[1])
        /\ FastNow(htf_15m[1]) = SlowNow(htf_15m[1]) => ~htf_data[1].aligned_15m
        /\ FastNow(htf_30m[1]) = SlowNow(htf_30m[1]) => ~htf_data[1].aligned_30m

\* 15m equal on the current sample (not aligned) while its prior sample is
\* ordered like the direction; 30m aligned with its prior sample ordered against it
C6_Witness ==
    /\ htf_data # <<>>
    /\ crossover = "LONG"
    /\ FastNow(htf_15m[1]) = SlowNow(htf_15m[1])
    /\ FastPrev(htf_15m[1]) > SlowPrev(htf_15m[1])
    /\ ~htf_data[1].aligned_15m
    /\ FastNow(htf_30m[1]) > SlowNow(htf_30m[1])
    /\ FastPrev(htf_30m[1]) < SlowPrev(htf_30m[1])
    /\ htf_data[1].aligned_30m

\* C7: a REJECTED run reports the first timeframe, in the order 15m then 30m,
\* whose flag is false: 15m whenever the 15m flag is false (whatever the 30m
\* flag), 30m only when the 15m flag is true and the 30m flag false.
C7_RejectionNamesFirstFailure ==
    (pc = "done" /\ outcome = "REJECTED") =>
        /\ htf_data # <<>>
        /\ sent # <<>>
        /\ LET last == sent[Len(sent)].message
           IN  /\ last.kind \in RejectKinds
               /\ last.direction = crossover
               /\ ~htf_data[1].aligned_15m => last.kind = "REJECT_15M"
               /\ last.kind = "REJECT_30M" <=>
                    (htf_data[1].aligned_15m /\ ~htf_data[1].aligned_30m)
        /\ Cardinality({i \in DOMAIN sent : sent[i].message.kind \in RejectKinds}) = 1

\* both flags false: the reason names 15m
C7_Witness ==
    /\ pc = "done"
    /\ outcome = "REJECTED"
    /\ ~htf_data[1].aligned_15m
    /\ ~htf_data[1].aligned_30m
    /\ sent[Len(sent)].message.kind = "REJECT_15M"

\* C8: when the 5m fetch fails with a request error the run is over in ERROR:
\* that fetch is the only one (no retry, no 15m or 30m fetch), nothing was
\* computed and send_telegram_alert was not called.
C8_BaseFetchFailureEndsRun ==
    (fetches # <<>> /\ fetches[1].status = "request_error") =>
        /\ fetches[1].interval = "5m"
        /\ Len(fetches) = 1
        /\ pc = "done"
        /\ outcome = "ERROR"
        /\ sent = <<>>
        /\ data_5m = <<>> /\ crossover = "UNSET"
        /\ htf_15m = <<>> /\ htf_30m = <<>> /\ htf_data = <<>>

C8_Witness ==
    /\ fetches # <<>>
    /\ fetches[1].interval = "5m"
    /\ fetches[1].status = "request_error"
    /\ outcome = "ERROR"

\* C9 as claimed: an answer with fewer rows than requested makes the fetch fail:
\* it is the run's last fetch, no snapshot comes from it, and the run ends
\* without a signal outcome.
C9_Claim ==
    \A i \in DOMAIN fetches :
        (fetches[i].status = "ok" /\ fetches[i].rows < fetches[i].limit) =>
            /\ i = Len(fetches)
            /\ pc = "done"
            /\ outcome \in {"ERROR", "UNHANDLED"}
            /\ fetches[i].interval = "5m" => (data_5m = <<>> /\ sent = <<>>)
            /\ fetches[i].interval = "15m" => htf_15m = <<>>
            /\ fetches[i].interval = "30m" => htf_30m = <<>>

\* C10: a failed send neither aborts the run nor is repeated: the run ends in
\* ERROR or unhandled only because of its last fetch, no message is handed to
\* send_telegram_alert twice, and what follows each send is fixed by the message
\* alone (the 15m fetch after 'crossover detected', the end of the run with the
\* matching outcome after the others), whether the send succeeded or failed.
C10_SendFailureIgnored ==
    /\ outcome = "ERROR" =>
        (fetches # <<>> /\ fetches[Len(fetches)].status = "request_error")
    /\ outcome = "UNHANDLED" =>
        /\ fetches # <<>>
        /\ \/ fetches[Len(fetches)].status = "bad_shape"
           \/ fetches[Len(fetches)].status = "ok" /\ fetches[Len(fetches)].rows < 3
    /\ \A i, j \in DOMAIN sent : sent[i].message.kind = sent[j].message.kind => i = j
    /\ \A i \in DOMAIN fetches :
        fetches[i].interval = <<"5m", "15m", "30m">>[i]
    /\ \A i \in DOMAIN sent :
        LET k == sent[i].message.kind
        IN  /\ k = "DETECTED" => (i = 1 /\ (pc = "htf_15m" \/ Fetched("15m")))
            /\ k = "NO_CROSSOVER" =>
                (i = Len(sent) /\ pc = "done" /\ outcome = "NO_SIGNAL" /\ Len(fetches) = 1)
            /\ k \in RejectKinds =>
                (i = Len(sent) /\ pc = "done" /\ outcome = "REJECTED" /\ Len(fetches) = 3)
            /\ k = "CONFIRMED" =>
                (i = Len(sent) /\ pc = "done" /\ outcome = "CONFIRMED" /\ Len(fetches) = 3)

\* both sends failed and the run still fetched 15m and 30m and ended CONFIRMED
C10_Witness ==
    /\ pc = "done"
    /\ outcome = "CONFIRMED"
    /\ Len(sent) = 2
    /\ ~sent[1].ok
    /\ ~sent[2].ok
    /\ Len(fetches) = 3

IsPrefix(a, b) == Len(a) <= Len(b) /\ \A i \in DOMAIN a : a[i] = b[i]

\* C11: a re-invocation starts from the state a first run starts from, and on
\* the same candle data it repeats the earlier run: at every point its fetches
\* and its messages are a prefix of the earlier run's, and when it has ended it
\* has made the same fetches, sent the same messages again (nothing is
\* deduplicated) and reached the same outcome, whatever its sends returned.
C11_RerunRepeatsRun ==
    earlier # <<>> =>
        LET e == earlier[1]
            messages == [i \in DOMAIN sent |-> sent[i].message]
        IN  /\ pc = "start" =>
                /\ outcome = "RUNNING"
                /\ data_5m = <<>> /\ crossover = "UNSET"
                /\ htf_15m = <<>> /\ htf_30m = <<>> /\ htf_data = <<>>
                /\ fetches = <<>> /\ sent = <<>>
            /\ IsPrefix(fetches, e.fetches)
            /\ IsPrefix(messages, e.messages)
            /\ pc = "done" =>
                /\ outcome = e.outcome
                /\ fetches = e.fetches
                /\ messages = e.messages
                /\ data_5m = e.data_5m /\ htf_15m = e.htf_15m /\ htf_30m = e.htf_30m

\* the re-invocation of a confirmed run has sent both messages again, with
\* send results that differ from nothing the earlier run kept
C11_Witness ==
    /\ earlier # <<>>
    /\ pc = "done"
    /\ earlier[1].outcome = "CONFIRMED"
    /\ outcome = "CONFIRMED"
    /\ Len(sent) = 2
    /\ ~sent[2].ok

IsConstant(prices) == \A i \in DOMAIN prices : prices[i] = prices[1]

\* the fraction x has the integer value v
HasValue(x, v) == x.den > 0 /\ x.num = v * x.den

\* C12: for a constant series of value V and any period >= 1, calculate_ema
\* returns a series of the same length whose every element equals V.
C12_ConstantSeriesFixedPoint ==
    (ema # <<>> /\ IsConstant(series)) =>
        /\ span >= 1
        /\ Len(ema[1]) = Len(series)
        /\ \A i \in DOMAIN ema[1] : HasValue(ema[1][i], series[1])

C12_Witness ==
    /\ ema # <<>>
    /\ span = EMA_SLOW
    /\ Len(series) = 3
    /\ IsConstant(series)
    /\ series[1] = 2
    /\ HasValue(ema[1][3], 2)

\* the frame with the close of its last row replaced
WithFinalClose(closes, x) == [closes EXCEPT ![Len(closes)] = x]

OkResponse(closes) == [status |-> "ok", closes |-> closes]

\* C13: a snapshot is read off the closed candles alone: its current values are
\* the last element of the EMA of the frame without its final row, its previous
\* values the element before, its close the last closed close; and whatever the
\* close of the final candle is, get_ema_values returns the same snapshot and
\* logs the same fetch, so main is in the same state after it and goes on to the
\* same crossover result and the same flags.
C13_FinalCandleExcluded ==
    (pc = "snapshot_done" /\ data_5m # <<>>) =>
        LET closed == Closed(series)
            m      == Len(closed)
            fast   == calculate_ema(closed, EMA_FAST)
            slow   == calculate_ema(closed, EMA_SLOW)
            snap   == data_5m[1]
        IN  /\ m = Len(series) - 1
            /\ snap.ema_fast = fast[m] /\ snap.ema_slow = slow[m]
            /\ snap.ema_fast_prev = fast[m - 1] /\ snap.ema_slow_prev = slow[m - 1]
            /\ snap.close_price = closed[m]
            /\ snap.close_time = m
            /\ \A x \in Prices :
                LET other == OkResponse(WithFinalClose(series, x))
                IN  /\ get_ema_values("5m", other).value = data_5m
                    /\ FetchEntry("5m", other) = fetches[1]
                    /\ check_ema_crossover(get_ema_values("5m", other).value[1])
                         = check_ema_crossover(snap)
                    /\ \A d \in Directions :
                        Aligned(d, get_ema_values("5m", other).value[1]) = Aligned(d, snap)

\* the closed candles rise (a LONG crossover) while the final candle is back down
C13_Witness ==
    /\ pc = "snapshot_done"
    /\ data_5m # <<>>
    /\ series = <<1, 2, 1>>
    /\ check_ema_crossover(data_5m[1]) = "LONG"

\* C14: when the base crossover result is None the run stops in NO_SIGNAL: the
\* no-crossover report is its only message, the 5m fetch its only fetch, and no
\* rejected or confirmed message follows; 15m and 30m candles are fetched only
\* after a LONG or SHORT crossover was detected on the base timeframe (and
\* announced).
C14_NoCrossoverStopsRun ==
    /\ crossover = "NONE" =>
        /\ pc \in {"send_none", "done"}
        /\ Len(fetches) = 1
        /\ ~Fetched("15m") /\ ~Fetched("30m")
        /\ htf_15m = <<>> /\ htf_30m = <<>> /\ htf_data = <<>>
        /\ pc = "send_none" => sent = <<>>
        /\ pc = "done" => (outcome = "NO_SIGNAL" /\ Kinds = <<"NO_CROSSOVER">>)
    /\ (Fetched("15m") \/ Fetched("30m")) =>
        /\ data_5m # <<>>
        /\ crossover \in Directions
        /\ crossover = check_ema_crossover(data_5m[1])
        /\ sent # <<>>
        /\ sent[1].message = DetectedMsg(crossover)
        /\ fetches[1].interval = "5m" /\ fetches[2].interval = "15m"

C14_Witness ==
    /\ pc = "done"
    /\ crossover = "NONE"
    /\ outcome = "NO_SIGNAL"
    /\ Len(fetches) = 1
    /\ Len(sent) = 1
    /\ sent[1].ok

\* a fetch that gave get_ema_values no snapshot
FetchFailed(entry) == entry.status # "ok" \/ entry.rows < 3

\* C15: a frame of fewer than 3 candles yields no snapshot: the fetch is the
\* run's last step, nothing is computed or sent for that timeframe, and the run
\* ends with the error propagating out of main (not swallowed like a request
\* error).
C15_ShortFrameUnhandled ==
    \A i \in DOMAIN fetches :
        (fetches[i].status = "ok" /\ fetches[i].rows < 3) =>
            /\ i = Len(fetches)
            /\ pc = "done"
            /\ outcome = "UNHANDLED"
            /\ htf_data = <<>>
            /\ fetches[i].interval = "5m" =>
                (data_5m = <<>> /\ crossover = "UNSET" /\ sent = <<>>)
            /\ fetches[i].interval = "15m" =>
                (htf_15m = <<>> /\ Kinds = <<"DETECTED">>)
            /\ fetches[i].interval = "30m" =>
                (htf_30m = <<>> /\ Kinds = <<"DETECTED">>)

C15_Witness ==
    /\ fetches # <<>>
    /\ fetches[1].status = "ok"
    /\ fetches[1].rows = 2
    /\ pc = "done"
    /\ outcome = "UNHANDLED"

\* C16: when a 15m or 30m fetch fails after a crossover was detected, the run
\* ends there without a rejected or a confirmed message; a confirmed alert is
\* only ever sent in a run whose three fetches all gave a snapshot.
C16_FetchFailureNoSignal ==
    /\ \A i \in DOMAIN fetches :
        FetchFailed(fetches[i]) =>
            /\ i = Len(fetches)
            /\ pc = "done"
            /\ outcome \in {"ERROR", "UNHANDLED"}
            /\ htf_data = <<>>
            /\ ~HasKind("CONFIRMED")
            /\ ~HasKind("REJECT_15M") /\ ~HasKind("REJECT_30M")
            /\ i > 1 => Kinds = <<"DETECTED">>
    /\ HasKind("CONFIRMED") =>
        /\ Len(fetches) = 3
        /\ \A i \in DOMAIN fetches : ~FetchFailed(fetches[i])

\* the 30m fetch fails with a request error after the 15m snapshot was taken
C16_Witness ==
    /\ Len(fetches) = 3
    /\ fetches[3].status = "request_error"
    /\ htf_15m # <<>>
    /\ pc = "done"
    /\ outcome = "ERROR"
    /\ Kinds = <<"DETECTED">>

\* how far main has got
Rank(p) ==
    CASE p = "start" -> 0
      [] p = "detect" -> 1
      [] p \in {"send_none", "send_detected"} -> 2
      [] p = "htf_15m" -> 3
      [] p = "htf_30m" -> 4
      [] p = "align" -> 5
      [] p = "check_15m" -> 6
      [] p \in {"send_reject_15m", "check_30m"} -> 7
      [] p \in {"send_reject_30m", "send_confirmed"} -> 8
      [] p = "done" -> 9

\* C17: when every fetch and every send returns or fails, every run of main
\* terminates; it has then exactly one of the outcomes ERROR, NO_SIGNAL,
\* REJECTED, CONFIRMED or unhandled error, which it does not have before; and
\* every step moves main forward, so no step is repeated (at most three fetches
\* and two sends).
C17_Terminates ==
    /\ <>(pc = "done")
    /\ [](pc = "done" <=>
            outcome \in {"ERROR", "NO_SIGNAL", "REJECTED", "CONFIRMED", "UNHANDLED"})
    /\ [][Rank(pc') > Rank(pc)]_vars
    /\ [](Len(fetches) <= 3 /\ Len(sent) <= 2)

C17_Witness ==
    /\ pc = "done"
    /\ outcome = "CONFIRMED"
    /\ Len(fetches) = 3
    /\ sent[1].ok /\ sent[2].ok

\* the smallest and the largest of the first i prices
PrefixMin(prices, i) ==
    CHOOSE m \in {prices[j] : j \in 1..i} : \A j \in 1..i : m <= prices[j]

PrefixMax(prices, i) ==
    CHOOSE m \in {prices[j] : j \in 1..i} : \A j \in 1..i : m >= prices[j]

\* lo <= x <= hi for a fraction x and integers lo, hi
Within(x, lo, hi) == x.den > 0 /\ lo * x.den <= x.num /\ x.num <= hi * x.den

\* C18: every EMA value lies between the smallest and the largest of the prices
\* up to its index, whatever the series and the span (>= 1); so the four EMA
\* values of a snapshot lie within the range of the closed candles' prices.
C18_EmaWithinPriceRange ==
    /\ ema # <<>> =>
        /\ span >= 1
        /\ Len(ema[1]) = Len(series)
        /\ \A i \in DOMAIN ema[1] :
            Within(ema[1][i], PrefixMin(series, i), PrefixMax(series, i))
    /\ (pc = "snapshot_done" /\ data_5m # <<>>) =>
        LET m    == Len(series) - 1
            lo   == PrefixMin(series, m)
            hi   == PrefixMax(series, m)
            snap == data_5m[1]
        IN  /\ Within(snap.ema_fast, lo, hi)
            /\ Within(snap.ema_slow, lo, hi)
            /\ Within(snap.ema_fast_prev, PrefixMin(series, m - 1), PrefixMax(series, m - 1))
            /\ Within(snap.ema_slow_prev, PrefixMin(series, m - 1), PrefixMax(series, m - 1))

\* closed candles 1, 2: the values are strictly inside the range
C18_Witness ==
    /\ pc = "snapshot_done"
    /\ data_5m # <<>>
    /\ series = <<1, 2, 2>>
    /\ span = EMA_FAST
    /\ ~HasValue(ema[1][3], 1) /\ ~HasValue(ema[1][3], 2)
    /\ ~HasValue(data_5m[1].ema_slow, 1) /\ ~HasValue(data_5m[1].ema_slow, 2)
    /\ Within(data_5m[1].ema_slow, 1, 2)

====
